---- MODULE Spec2Model ----
(***************************************************************************)
(* Model of strangeintp/common:                                            *)
(*   - Experiment.full_factorial_design  (src/Common/src/experiment.py)    *)
(*   - Experiment.run / simulate, the job execution loop                   *)
(*   - Annealer.anneal                   (src/Common/src/annealer.py)      *)
(* Three specifications share the module: SpecDesign drives the design     *)
(* generator alone, SpecRun drives a whole experiment run, SpecAnneal      *)
(* drives one call of anneal.                                              *)
(***************************************************************************)
EXTENDS Integers, Sequences, FiniteSets, TLC

\* ------------------------------------------------------------------ bounds
\* most dimensions handed to full_factorial_design
MaxDims == 3
\* longest value list of a parameter
MaxVals == 3
\* cap on the iterations of the generator's while loop (it has no bound of
\* its own when the mapping is empty)
MaxLoop == 4

\* ------------------------------------------------------------ vocabulary
Setters == <<"setA", "setB", "setC", "setD">>
JobIdName == "job_id"

\* the i-th value of the list registered for the d-th setter
ValueAt(d, i) == 10 * d + i
ValueList(d, n) == [i \in 1..n |-> ValueAt(d, i)]

RECURSIVE SeqProduct(_)
SeqProduct(s) == IF s = <<>> THEN 1 ELSE Head(s) * SeqProduct(Tail(s))

RECURSIVE SeqSum(_)
SeqSum(s) == IF s = <<>> THEN 0 ELSE Head(s) + SeqSum(Tail(s))

VARIABLES
  \* --- full_factorial_design
  ffd_pc,        \* "call", "loop", "returned", "raised", or "idle"
  parameters,    \* the ordered mapping: a sequence of [key, values, list]
  ordered,       \* isinstance(parameters, OrderedDict)
  counter,       \* the odometer, one digit per dimension (0-based digits)
  maxcounter,
  result,
  go,
  job_id,
  ffd_error,     \* the exception raised, "" when none
  \* --- Annealer.anneal
  an_pc,         \* "call", "loop", "returned", "raised", or "idle"
  k,
  schedule_temps,
  schedule_times,
  move_inplace,  \* the caller's move_func writes into its argument and
                 \* returns it (TRUE), or returns a new object (FALSE)
  heap,          \* the live state objects: object id -> content (a point)
  initial_state, \* object ids (0: unbound)
  best_state,
  prev_state,
  state,
  returned,
  best_energy,
  prev_energy,
  step,          \* index of the current stage, 0-based
  t,             \* iterations done in the current stage
  delta_energy,  \* line 30, of the last iteration
  draw,          \* <<d>>: the last iteration sampled random() = d/Scale;
                 \* <<>>: it did not call random()
  n_objective,   \* calls of objective_func so far
  n_move,        \* calls of move_func so far
  \* --- Experiment.run
  run_pc,        \* the place run() has reached, "idle" when not running
  defaults,      \* OrderedDict setter -> value: a sequence of [key, value]
  paramSetters,  \* OrderedDict setter -> list: a sequence of [key, values, list]
  job_repetitions,
  design,
  job_idx,       \* iterations of simulate's job loop begun so far
  rep,           \* repetitions of the current job completed so far
  job_outputs,   \* output name -> list of the repetitions' values
  summary_avgs,  \* job_id -> output name -> mean
  summary_stds,  \* job_id -> output name -> standard deviation
  sim_params,    \* the simulation: the value each setter applied last
  sim_steps,     \* the simulation: stepSim() calls since initiateSim()
  sim_runs,      \* the simulation: initiateSim() calls so far
  calls,         \* the callback calls made since the current job began
                 \* (before the first job: those of setDefaults)
  halted,        \* the except clause of run() was entered
  table_avgs,    \* rows written to the summary of job averages
  table_stds,    \* rows written to the summary of standard deviations
  closed,        \* outputFile.close() of line 238 was reached
  run_error,     \* the exception that left run(), "" when none
  last_add,      \* the arguments of the last addParameter call, <<>> if none
  \* --- Annealer.configureLinearSchedule
  cls_pc,        \* "call", "step", "temps", "returned", "raised", or "idle"
  min_temp,
  max_temp,
  min_time,
  max_time,
  time_step,
  times,
  temp_step,     \* a fraction [num, den]
  temps,         \* a list of fractions
  cls_error      \* the exception raised, "" when none

ffdVars == <<ffd_pc, parameters, ordered, counter, maxcounter, result, go,
             job_id, ffd_error>>

anVars == <<an_pc, k, schedule_temps, schedule_times, move_inplace, heap, initial_state,
            best_state, prev_state, state, returned, best_energy,
            prev_energy, step, t, delta_energy, draw, n_objective, n_move>>

runVars == <<run_pc, defaults, paramSetters, job_repetitions, design,
             job_idx, rep, job_outputs, summary_avgs, summary_stds,
             sim_params, sim_steps, sim_runs, calls, halted, table_avgs,
             table_stds, closed, run_error>>

addVars == <<last_add>>

clsVars == <<cls_pc, min_temp, max_temp, min_time, max_time, time_step,
             times, temp_step, temps, cls_error>>

vars == <<ffdVars, anVars, runVars, addVars, clsVars>>

\* ------------------------------------------------ full_factorial_design
Keys(params) == [i \in 1..Len(params) |-> params[i].key]
Lens(params) == [i \in 1..Len(params) |-> Len(params[i].values)]

\* lines 344-355: the validation; the first offending dimension decides
ValidateFirstOnly(params, i, job_id_name) ==
  IF i > Len(params) THEN ""
  ELSE IF ~params[i].list THEN "dimension must be a list"
  ELSE IF params[i].key = job_id_name THEN "dimension name equal to job_id_name"
  ELSE ""

RECURSIVE ValidateFrom(_, _, _)
ValidateFrom(params, i, job_id_name) ==
  IF i > Len(params) THEN ""
  ELSE IF ~params[i].list THEN "dimension must be a list"
  ELSE IF params[i].key = job_id_name THEN "dimension name equal to job_id_name"
  ELSE ValidateFrom(params, i + 1, job_id_name)

Validate(params, isOrdered, job_id_name) ==
  IF ~isOrdered THEN "parameters must be OrderedDict"
  ELSE ValidateFrom(params, 1, job_id_name)

\* lines 361-366: the job of the current counter state
MakeJob(params, ctr, id) ==
  [assign |-> [i \in 1..Len(params) |-> params[i].values[ctr[i] + 1]],
   job_id |-> id]

\* lines 368-375: increment the last digit, carrying towards the first
RECURSIVE CarryFirstFastest(_, _, _, _)
CarryFirstFastest(ctr, maxctr, i, g) ==
  IF i > Len(ctr) THEN [counter |-> ctr, go |-> g]
  ELSE LET c == [ctr EXCEPT ![i] = @ + 1] IN
    IF c[i] = maxctr[i]
      THEN CarryFirstFastest([c EXCEPT ![i] = 0], maxctr, i + 1,
                             IF i = Len(ctr) THEN FALSE ELSE g)
      ELSE [counter |-> c, go |-> g]

RECURSIVE Carry(_, _, _, _)
Carry(ctr, maxctr, i, g) ==
  IF i < 1 THEN [counter |-> ctr, go |-> g]
  ELSE LET c == [ctr EXCEPT ![i] = @ + 1] IN
    IF c[i] = maxctr[i]
      THEN Carry([c EXCEPT ![i] = 0], maxctr, i - 1,
                 IF i = 1 THEN FALSE ELSE g)
      ELSE [counter |-> c, go |-> g]

AdvanceBroken(ctr, maxctr) == CarryFirstFastest(ctr, maxctr, 1, TRUE)

Advance(ctr, maxctr) == Carry(ctr, maxctr, Len(ctr), TRUE)

\* lines 360-375: the body of the while loop; line 364 raises IndexError
\* when it indexes an empty value list
LoopBody(params, ctr, maxctr, id, res) ==
  IF \E i \in 1..Len(params) : ctr[i] >= Len(params[i].values)
    THEN [raised |-> TRUE, counter |-> ctr, go |-> TRUE, job_id |-> id + 1,
          result |-> res]
    ELSE LET a == Advance(ctr, maxctr) IN
         [raised |-> FALSE, counter |-> a.counter, go |-> a.go,
          job_id |-> id + 1,
          result |-> Append(res, MakeJob(params, ctr, id + 1))]

\* lines 359-376: the while loop run to its end
RECURSIVE WhileGo(_, _, _, _, _)
\* (the iteration's outcome b is bound once, the way the loop body runs once)
WhileGo(params, ctr, maxctr, id, res) ==
  CHOOSE out \in
    { IF b.raised THEN [error |-> "IndexError", design |-> <<>>]
      ELSE IF b.go THEN WhileGo(params, b.counter, maxctr, b.job_id, b.result)
      ELSE [error |-> "", design |-> b.result] :
        b \in { LoopBody(params, ctr, maxctr, id, res) } } : TRUE

\* the whole call: the design returned, or the exception raised; with an
\* empty mapping the carry loop of line 368 has no iteration, go is never
\* cleared and the call does not return ("no return")
full_factorial_design(params, isOrdered, job_id_name) ==
  IF Validate(params, isOrdered, job_id_name) # ""
    THEN [error |-> Validate(params, isOrdered, job_id_name), design |-> <<>>]
  ELSE IF Len(params) = 0
    THEN [error |-> "no return", design |-> <<>>]
  ELSE WhileGo(params, [i \in 1..Len(params) |-> 0], Lens(params), 0, <<>>)

\* the inputs of the generator: up to MaxDims dimensions; a dimension's
\* value set is a list of 0..MaxVals values or not a list at all, and its
\* key is a setter or (at most once) the job id name itself
DimChoices(d) ==
  { [key |-> ky, values |-> ValueList(d, n), list |-> TRUE] :
      ky \in {Setters[d], JobIdName}, n \in 0..MaxVals }
  \cup
  { [key |-> ky, values |-> <<ValueAt(d, 1)>>, list |-> FALSE] :
      ky \in {Setters[d], JobIdName} }

RECURSIVE MappingsOf(_)
MappingsOf(n) ==
  IF n = 0 THEN { <<>> }
  ELSE { Append(p, c) : p \in MappingsOf(n - 1), c \in DimChoices(n) }

\* keys of a mapping are unique, so the job id name occurs at most once
DesignInputs ==
  { p \in UNION { MappingsOf(n) : n \in 0..MaxDims } :
      Cardinality({ d \in 1..Len(p) : p[d].key = JobIdName }) <= 1 }

FfdIdle ==
  /\ ffd_pc = "idle" /\ parameters = <<>> /\ ordered = TRUE
  /\ counter = <<>> /\ maxcounter = <<>> /\ result = <<>>
  /\ go = FALSE /\ job_id = 0 /\ ffd_error = ""

InitDesign ==
  /\ ffd_pc = "call"
  /\ parameters \in DesignInputs
  /\ ordered \in BOOLEAN
  /\ counter = <<>> /\ maxcounter = <<>> /\ result = <<>>
  /\ go = FALSE /\ job_id = 0 /\ ffd_error = ""

\* lines 344-358: validation and the loop's initial state
FfdEnter ==
  /\ ffd_pc = "call"
  /\ LET e == Validate(parameters, ordered, JobIdName) IN
       IF e # ""
         THEN /\ ffd_pc' = "raised" /\ ffd_error' = e
              /\ UNCHANGED <<counter, maxcounter, result, go, job_id>>
         ELSE /\ ffd_pc' = "loop"
              /\ counter' = [i \in 1..Len(parameters) |-> 0]
              /\ maxcounter' = Lens(parameters)
              /\ result' = <<>> /\ go' = TRUE /\ job_id' = 0
              /\ ffd_error' = ""
  /\ UNCHANGED <<parameters, ordered>>
  /\ UNCHANGED <<anVars, runVars, addVars, clsVars>>

\* lines 359-375: one iteration of the while loop
FfdIterate ==
  /\ ffd_pc = "loop" /\ go
  /\ Len(parameters) = 0 => job_id < MaxLoop
  /\ LET b == LoopBody(parameters, counter, maxcounter, job_id, result) IN
       /\ job_id' = b.job_id
       /\ result' = b.result
       /\ counter' = b.counter
       /\ go' = b.go
       /\ ffd_pc' = IF b.raised THEN "raised" ELSE ffd_pc
       /\ ffd_error' = IF b.raised THEN "IndexError" ELSE ffd_error
  /\ UNCHANGED <<parameters, ordered, maxcounter>>
  /\ UNCHANGED <<anVars, runVars, addVars, clsVars>>

\* line 376
FfdReturn ==
  /\ ffd_pc = "loop" /\ ~go
  /\ ffd_pc' = "returned"
  /\ UNCHANGED <<parameters, ordered, counter, maxcounter, result, go,
                 job_id, ffd_error>>
  /\ UNCHANGED <<anVars, runVars, addVars, clsVars>>

NextDesign == FfdEnter \/ FfdIterate \/ FfdReturn


\* ------------------------------------------------------ Annealer.anneal
\* most stages of a schedule, and the longest duration of a stage
MaxStages == 2
MaxDuration == 2

\* the caller's state space: a state's content is a point, and the
\* objective is the energy of the point (two points tie at energy 1)
Landscape == <<1, 2, 1, 0>>
Points == 1..Len(Landscape)
objective_func(pt) == Landscape[pt]
InitialPoints == {1, 2}
Temperatures == {0, 1}
KChoices == {1, 2}
\* random() returns d / Scale for a d in Draws: a sample of [0, 1)
Draws == {0, 1, 2}
Scale == Cardinality(Draws)

\* state.copy(): a new object with the same content
\* (the smallest free object id)
NewId(h) == CHOOSE i \in 1..Cardinality(DOMAIN h) + 1 :
              /\ i \notin DOMAIN h
              /\ \A j \in 1..i - 1 : j \in DOMAIN h
Alloc(h, pt) == [i \in DOMAIN h \cup {NewId(h)} |->
                   IF i \in DOMAIN h THEN h[i] ELSE pt]
\* objects no variable refers to any more are reclaimed
Collect(h, live) == [i \in DOMAIN h \cap live |-> h[i]]

\* line 28: the caller's move_func.  It returns a new object of content pt,
\* or (inplace) writes pt into its argument and returns the argument itself
move_func(h, arg, pt, inplace) ==
  IF inplace
    THEN [heap |-> [h EXCEPT ![arg] = pt], state |-> arg]
    ELSE [heap |-> Alloc(h, pt), state |-> NewId(h)]

\* lines 21 and 37: best_state is bound to the object copy() creates
BestStateAliased(h, obj) == obj
BestStateCopied(h, obj) == NewId(h)

\* exp(-delta/(k*temp)) as the fraction ExpNum/ExpDen: the series of
\* exp(x) cut after the cubic term, over the common denominator 6(k*temp)^3
ExpNum(delta, kt) == 6 * kt * kt * kt
ExpDen(delta, kt) ==
  6 * kt * kt * kt + 6 * delta * kt * kt + 3 * delta * delta * kt
    + delta * delta * delta

\* line 32
ImprovesReversed(energy, prev) == energy > prev
Improves(energy, prev) == energy < prev

\* line 35
ImprovesOnCurrent(energy, best) == TRUE
ImprovesOnBest(energy, best) == energy < best

\* line 38: random() < exp(-delta_energy/(k*temp)), for k*temp # 0
AcceptsAlways(d, delta, kt) == TRUE
AcceptsStrictlyWorseOnly(d, delta, kt) ==
  delta > 0 /\ d * ExpDen(delta, kt) < Scale * ExpNum(delta, kt)
Accepts(d, delta, kt) == d * ExpDen(delta, kt) < Scale * ExpNum(delta, kt)

\* line 27: range(time)
StageIterationsInclusive(tms, s) == tms[s + 1] + 1
StageIterations(tms, s) == tms[s + 1]

Schedules ==
  UNION { { [temps |-> tp, times |-> tm] :
              tp \in [1..n -> Temperatures], tm \in [1..n -> 0..MaxDuration] }
          : n \in 0..MaxStages }

AnIdle ==
  /\ an_pc = "idle" /\ k = 1 /\ schedule_temps = <<>> /\ schedule_times = <<>>
  /\ move_inplace = FALSE
  /\ heap = <<>> /\ initial_state = 0 /\ best_state = 0 /\ prev_state = 0
  /\ state = 0 /\ returned = 0 /\ best_energy = 0 /\ prev_energy = 0
  /\ step = 0 /\ t = 0 /\ delta_energy = 0 /\ draw = <<>>
  /\ n_objective = 0 /\ n_move = 0

InitAnneal ==
  /\ an_pc = "call"
  /\ k \in KChoices
  /\ \E sch \in Schedules :
       schedule_temps = sch.temps /\ schedule_times = sch.times
  /\ move_inplace \in BOOLEAN
  /\ \E pt \in InitialPoints : heap = <<pt>>
  /\ initial_state = 1
  /\ best_state = 0 /\ prev_state = 0 /\ state = 0 /\ returned = 0
  /\ best_energy = 0 /\ prev_energy = 0
  /\ step = 0 /\ t = 0 /\ delta_energy = 0 /\ draw = <<>>
  /\ n_objective = 0 /\ n_move = 0

\* lines 20-23
AnnealEnter ==
  /\ an_pc = "call"
  /\ LET e  == objective_func(heap[initial_state])
         h1 == Alloc(heap, heap[initial_state])
         b  == BestStateCopied(heap, initial_state)
         h2 == Alloc(h1, heap[initial_state])
         p  == NewId(h1)
     IN /\ best_energy' = e
        /\ best_state' = b
        /\ prev_state' = p
        /\ prev_energy' = e
        /\ heap' = h2
  /\ n_objective' = n_objective + 1
  /\ an_pc' = "loop"
  /\ step' = 0 /\ t' = 0
  /\ UNCHANGED <<k, schedule_temps, schedule_times, move_inplace,
                 initial_state, state, returned, delta_energy, draw, n_move>>
  /\ UNCHANGED <<ffdVars, runVars, addVars, clsVars>>

\* lines 28-40: one iteration of the inner loop, for the candidate content
\* pt produced by move_func and the sample d of random() (0 stands for no
\* sample in the iterations that do not reach the call of random())
AnnealIterate(pt, d) ==
  /\ an_pc = "loop"
  /\ step < Len(schedule_temps)
  /\ t < StageIterations(schedule_times, step)
  /\ ( \/ Improves(objective_func(pt), prev_energy)
       \/ k * schedule_temps[step + 1] = 0 ) => d = 0
  /\ LET temp   == schedule_temps[step + 1]
         \* state = move_func(prev_state)
         mv     == move_func(heap, prev_state, pt, move_inplace)
         h1     == mv.heap
         cand   == mv.state
         energy == objective_func(pt)
         delta  == energy - prev_energy
         \* prev_state = state.copy()
         hp     == Alloc(h1, pt)
         np     == NewId(h1)
         \* best_state = state.copy()
         hb     == Alloc(hp, pt)
         nb     == BestStateCopied(hp, cand)
     IN /\ state' = cand
        /\ delta_energy' = delta
        /\ n_move' = n_move + 1
        /\ n_objective' = n_objective + 1
        /\ IF Improves(energy, prev_energy)
             THEN /\ prev_energy' = energy
                  /\ prev_state' = np
                  /\ draw' = <<>>
                  /\ an_pc' = an_pc /\ t' = t + 1
                  /\ IF ImprovesOnBest(energy, best_energy)
                       THEN /\ best_energy' = energy
                            /\ best_state' = nb
                            /\ heap' = Collect(hb, {initial_state, nb, np, cand})
                       ELSE /\ UNCHANGED <<best_energy, best_state>>
                            /\ heap' = Collect(hp, {initial_state, best_state, np, cand})
             ELSE IF k * temp = 0
               THEN \* ZeroDivisionError, before random() is compared
                    /\ an_pc' = "raised"
                    /\ heap' = Collect(h1, {initial_state, best_state, prev_state, cand})
                    /\ draw' = <<>>
                    /\ UNCHANGED <<prev_energy, prev_state, best_energy,
                                   best_state, t>>
               ELSE /\ draw' = <<d>>
                    /\ an_pc' = an_pc /\ t' = t + 1
                    /\ UNCHANGED <<best_energy, best_state>>
                    /\ IF Accepts(d, delta, k * temp)
                         THEN /\ prev_energy' = energy
                              /\ prev_state' = np
                              /\ heap' = Collect(hp, {initial_state, best_state, np, cand})
                         ELSE /\ UNCHANGED <<prev_energy, prev_state>>
                              /\ heap' = Collect(h1, {initial_state, best_state, prev_state, cand})
  /\ UNCHANGED <<k, schedule_temps, schedule_times, move_inplace,
                 initial_state, returned, step>>
  /\ UNCHANGED <<ffdVars, runVars, addVars, clsVars>>

\* lines 24-27: the stage's range(time) is exhausted
AnnealNextStage ==
  /\ an_pc = "loop"
  /\ step < Len(schedule_temps)
  /\ t >= StageIterations(schedule_times, step)
  /\ step' = step + 1 /\ t' = 0
  /\ UNCHANGED <<an_pc, k, schedule_temps, schedule_times, move_inplace,
                 heap, initial_state, best_state, prev_state, state, returned,
                 best_energy, prev_energy, delta_energy, draw, n_objective,
                 n_move>>
  /\ UNCHANGED <<ffdVars, runVars, addVars, clsVars>>

\* line 41
AnnealReturn ==
  /\ an_pc = "loop"
  /\ step = Len(schedule_temps)
  /\ an_pc' = "returned"
  /\ returned' = best_state
  /\ UNCHANGED <<k, schedule_temps, schedule_times, move_inplace, heap,
                 initial_state, best_state, prev_state, state, best_energy, prev_energy,
                 step, t, delta_energy, draw, n_objective, n_move>>
  /\ UNCHANGED <<ffdVars, runVars, addVars, clsVars>>

NextAnneal ==
  \/ AnnealEnter
  \/ \E pt \in Points, d \in Draws : AnnealIterate(pt, d)
  \/ AnnealNextStage
  \/ AnnealReturn

\* -------------------------------------------------------- Experiment.run
\* longest value list handed to addParameter, most repetitions of a job,
\* and most stepSim() calls of a repetition before stopSim() reports true
MaxSweep == 2
MaxReps == 2
MaxSteps == 1

\* the setters the experiment registers, and the outputs it adds
RunSetters == <<"setA", "setB">>
OutputNames == <<"runs", "setting", "const">>
OutputSet == { OutputNames[i] : i \in 1..Len(OutputNames) }

\* utility.mean and utility.popStdDev, as exact fractions; the standard
\* deviation is kept as its square, the population variance
mean(l) == [num |-> SeqSum(l), den |-> Len(l)]
popStdDev(l) ==
  [num |-> Len(l) * SeqSum([i \in 1..Len(l) |-> l[i] * l[i]])
             - SeqSum(l) * SeqSum(l),
   den |-> Len(l) * Len(l)]

\* self.<dict>[key] = entry on an OrderedDict: a known key keeps its place
DictSet(dict, key, entry) ==
  IF \E i \in 1..Len(dict) : dict[i].key = key
    THEN [i \in 1..Len(dict) |-> IF dict[i].key = key THEN entry ELSE dict[i]]
    ELSE Append(dict, entry)

\* lines 166-172; a value that is not a list is carried as values[1]
addParameterShortList(exp, setterMethod, values, isList) ==
  IF ~isList
    THEN [exp EXCEPT !.defaults =
            DictSet(@, setterMethod, [key |-> setterMethod, value |-> values[1]])]
  ELSE IF Len(values) \in 1..2
    THEN [exp EXCEPT !.defaults =
            DictSet(@, setterMethod, [key |-> setterMethod, value |-> values[1]])]
  ELSE [exp EXCEPT !.paramSetters =
            DictSet(@, setterMethod,
                    [key |-> setterMethod, values |-> values, list |-> TRUE])]

addParameter(exp, setterMethod, values, isList) ==
  IF ~isList
    THEN [exp EXCEPT !.defaults =
            DictSet(@, setterMethod, [key |-> setterMethod, value |-> values[1]])]
  ELSE IF Len(values) = 1
    THEN [exp EXCEPT !.defaults =
            DictSet(@, setterMethod, [key |-> setterMethod, value |-> values[1]])]
  ELSE [exp EXCEPT !.paramSetters =
            DictSet(@, setterMethod,
                    [key |-> setterMethod, values |-> values, list |-> TRUE])]

\* what setupExperiment may register for the d-th setter: a plain value,
\* or a list of 0..MaxSweep values
AddChoices(d) ==
  { [key |-> RunSetters[d], values |-> <<ValueAt(d, 0)>>, list |-> FALSE] }
  \cup { [key |-> RunSetters[d], values |-> ValueList(d, n), list |-> TRUE] :
           n \in 0..MaxSweep }

AllAddChoices == UNION { AddChoices(d) : d \in 1..Len(RunSetters) }

\* the addParameter calls of one setupExperiment: each setter at most once
AddSequences ==
  { <<>> } \cup { <<a>> : a \in AllAddChoices }
  \cup { <<p[1], p[2]>> :
           p \in { q \in AllAddChoices \X AllAddChoices : q[1].key # q[2].key } }

RECURSIVE setupParameters(_, _)
setupParameters(exp, adds) ==
  IF adds = <<>> THEN exp
  ELSE setupParameters(
         addParameter(exp, Head(adds).key, Head(adds).values, Head(adds).list),
         Tail(adds))

\* one callback call: the function, the setter or output it is, its
\* argument (setters) or result (stopSim: 1 true, 0 false; getters), the job
\* and repetition it was made for, and whether it raised
Call(fn, key, arg, jid, r, raised) ==
  [fn |-> fn, key |-> key, arg |-> arg, job |-> jid, rep |-> r, raised |-> raised]

\* lines 325-326 and 334-335: every swept setter is called with the job's
\* value, in declaration order; raiseAt names the call that raises (0: none)
SetterPassReversed(job, raiseAt, r) ==
  LET n == Len(paramSetters)
      m == IF raiseAt = 0 THEN n ELSE raiseAt
  IN [i \in 1..m |->
        Call("setter", paramSetters[n + 1 - i].key, job.assign[n + 1 - i],
             job.job_id, r, i = raiseAt)]

SetterPass(job, raiseAt, r) ==
  LET m == IF raiseAt = 0 THEN Len(paramSetters) ELSE raiseAt
  IN [i \in 1..m |->
        Call("setter", paramSetters[i].key, job.assign[i], job.job_id, r,
             i = raiseAt)]

\* the setters configure the simulation: a call that returns applies its value
\* (nsp: the configuration after the first call, rest: the calls after it)
RECURSIVE ApplyCalls(_, _)
ApplyCalls(sp, cs) ==
  IF cs = <<>> THEN sp
  ELSE CHOOSE out \in
         { ApplyCalls(nsp, rest) :
             nsp \in { IF Head(cs).fn = "setter" /\ ~Head(cs).raised
                         THEN [sp EXCEPT ![Head(cs).key] = Head(cs).arg]
                         ELSE sp },
             rest \in { Tail(cs) } } : TRUE

\* the getters: the number of simulations initiated so far, the sum of the
\* applied parameter values, and a constant
GetterValue(name) ==
  CASE name = "runs" -> sim_runs
    [] name = "setting" ->
         SeqSum([i \in 1..Len(RunSetters) |-> sim_params[RunSetters[i]]])
    [] OTHER -> 7

\* lines 275-278: the getters are called in the order of registration
GetterPass(raiseAt, jid, r) ==
  LET m == IF raiseAt = 0 THEN Len(OutputNames) ELSE raiseAt
  IN [i \in 1..m |->
        Call("getter", OutputNames[i], GetterValue(OutputNames[i]), jid, r,
             i = raiseAt)]

\* lines 243-246
KeptJobOutputs ==
  IF job_outputs = <<>> THEN [o \in OutputSet |-> <<>>] ELSE job_outputs

FreshJobOutputs == [o \in OutputSet |-> <<>>]

\* lines 253-254
AppendOutputs(jo, outs) == [o \in DOMAIN jo |-> Append(jo[o], outs[o])]

\* the job the loop of simulate is at
CurrentJob == design[job_idx]

RunIdle ==
  /\ run_pc = "idle" /\ defaults = <<>> /\ paramSetters = <<>>
  /\ job_repetitions = 1 /\ design = <<>> /\ job_idx = 0 /\ rep = 0
  /\ job_outputs = <<>> /\ summary_avgs = <<>> /\ summary_stds = <<>>
  /\ sim_params = [s \in { RunSetters[i] : i \in 1..Len(RunSetters) } |-> 0]
  /\ sim_steps = 0 /\ sim_runs = 0 /\ calls = <<>> /\ halted = FALSE
  /\ table_avgs = <<>> /\ table_stds = <<>> /\ closed = FALSE
  /\ run_error = ""

\* lines 98-107: a constructed experiment on which run() is called
InitRun ==
  /\ run_pc = "start" /\ defaults = <<>> /\ paramSetters = <<>>
  /\ job_repetitions = 1 /\ design = <<>> /\ job_idx = 0 /\ rep = 0
  /\ job_outputs = <<>> /\ summary_avgs = <<>> /\ summary_stds = <<>>
  /\ sim_params = [s \in { RunSetters[i] : i \in 1..Len(RunSetters) } |-> 0]
  /\ sim_steps = 0 /\ sim_runs = 0 /\ calls = <<>> /\ halted = FALSE
  /\ table_avgs = <<>> /\ table_stds = <<>> /\ closed = FALSE
  /\ run_error = ""

\* lines 192-194: the subclass's setupExperiment registers the parameters
\* and the repetitions (line 151)
SetupExperiment(adds, reps) ==
  /\ run_pc = "start"
  /\ LET e == setupParameters([defaults |-> defaults, paramSetters |-> paramSetters], adds)
     IN /\ defaults' = e.defaults
        /\ paramSetters' = e.paramSetters
  /\ job_repetitions' = reps
  /\ run_pc' = "check"
  /\ UNCHANGED <<design, job_idx, rep, job_outputs, summary_avgs,
                 summary_stds, sim_params, sim_steps, sim_runs, calls,
                 halted, table_avgs, table_stds, closed, run_error>>
  /\ UNCHANGED <<ffdVars, anVars, addVars, clsVars>>

\* lines 185-189
checkParameters ==
  /\ run_pc = "check"
  /\ paramSetters' =
       IF paramSetters = <<>>
         THEN [i \in 1..Len(defaults) |->
                 [key |-> defaults[i].key, values |-> <<defaults[i].value>>,
                  list |-> TRUE]]
         ELSE paramSetters
  /\ run_pc' = "defaults"
  /\ UNCHANGED <<defaults, job_repetitions, design, job_idx, rep,
                 job_outputs, summary_avgs, summary_stds, sim_params,
                 sim_steps, sim_runs, calls, halted, table_avgs, table_stds,
                 closed, run_error>>
  /\ UNCHANGED <<ffdVars, anVars, addVars, clsVars>>

\* lines 316-319; outside the try block, so a raising setter leaves run()
setDefaults(raiseAt) ==
  /\ run_pc = "defaults"
  /\ raiseAt \in 0..Len(defaults)
  /\ LET m  == IF raiseAt = 0 THEN Len(defaults) ELSE raiseAt
         cs == [i \in 1..m |->
                  Call("setter", defaults[i].key, defaults[i].value, 0, 0,
                       i = raiseAt)]
     IN /\ calls' = cs
        /\ sim_params' = ApplyCalls(sim_params, cs)
  /\ run_pc' = IF raiseAt = 0 THEN "design" ELSE "propagated"
  /\ run_error' = IF raiseAt = 0 THEN "" ELSE "setter raised"
  /\ UNCHANGED <<defaults, paramSetters, job_repetitions, design, job_idx,
                 rep, job_outputs, summary_avgs, summary_stds, sim_steps,
                 sim_runs, halted, table_avgs, table_stds, closed>>
  /\ UNCHANGED <<ffdVars, anVars, addVars, clsVars>>

\* line 197; outside the try block as well
BuildDesign ==
  /\ run_pc = "design"
  /\ LET d == full_factorial_design(paramSetters, TRUE, JobIdName) IN
       /\ design' = d.design
       /\ run_pc' = CASE d.error = "" -> "filewrite"
                      [] d.error = "no return" -> "hang"
                      [] OTHER -> "propagated"
       /\ run_error' = IF d.error \in {"", "no return"} THEN "" ELSE d.error
  /\ UNCHANGED <<defaults, paramSetters, job_repetitions, job_idx, rep,
                 job_outputs, summary_avgs, summary_stds, sim_params,
                 sim_steps, sim_runs, calls, halted, table_avgs, table_stds,
                 closed>>
  /\ UNCHANGED <<ffdVars, anVars, addVars, clsVars>>

\* lines 198-200
filewriteParameters ==
  /\ run_pc = "filewrite"
  /\ summary_avgs' = <<>> /\ summary_stds' = <<>>
  /\ run_pc' = "job_next"
  /\ UNCHANGED <<defaults, paramSetters, job_repetitions, design, job_idx,
                 rep, job_outputs, sim_params, sim_steps, sim_runs, calls,
                 halted, table_avgs, table_stds, closed, run_error>>
  /\ UNCHANGED <<ffdVars, anVars, addVars, clsVars>>

\* the job the next iteration of `for job in self.design` takes
NextJobDescending == design[Len(design) - job_idx]

NextJob == design[job_idx + 1]

\* lines 241-246: the loop takes the next job and sets its parameters
setJobParameters(raiseAt) ==
  /\ run_pc = "job_next"
  /\ job_idx < Len(design)
  /\ raiseAt \in 0..Len(paramSetters)
  /\ LET cs == SetterPass(NextJob, raiseAt, 0) IN
       /\ calls' = cs
       /\ sim_params' = ApplyCalls(sim_params, cs)
  /\ job_idx' = job_idx + 1
  /\ rep' = 0
  /\ job_outputs' = IF raiseAt = 0 THEN FreshJobOutputs ELSE job_outputs
  /\ run_pc' = IF raiseAt = 0 THEN "rep_next" ELSE "except"
  /\ UNCHANGED <<defaults, paramSetters, job_repetitions, design,
                 summary_avgs, summary_stds, sim_steps, sim_runs, halted,
                 table_avgs, table_stds, closed, run_error>>
  /\ UNCHANGED <<ffdVars, anVars, addVars, clsVars>>

\* line 247: range(self.job_repetitions)
RepetitionsInclusive == job_repetitions + 1
Repetitions == job_repetitions

\* lines 247-249
initiateSim(raises) ==
  /\ run_pc = "rep_next"
  /\ rep < Repetitions
  /\ calls' = Append(calls,
                Call("initiateSim", "", 0, CurrentJob.job_id, rep + 1, raises))
  /\ IF raises
       THEN /\ run_pc' = "except"
            /\ UNCHANGED <<sim_steps, sim_runs>>
       ELSE /\ run_pc' = "rep_poll"
            /\ sim_steps' = 0
            /\ sim_runs' = sim_runs + 1
  /\ UNCHANGED <<defaults, paramSetters, job_repetitions, design, job_idx,
                 rep, job_outputs, summary_avgs, summary_stds, sim_params,
                 halted, table_avgs, table_stds, closed, run_error>>
  /\ UNCHANGED <<ffdVars, anVars, addVars, clsVars>>

\* line 250: the loop condition; the simulation stops after MaxSteps steps
\* at the latest
stopSim(stop, raises) ==
  /\ run_pc = "rep_poll"
  /\ (~raises /\ ~stop) => sim_steps < MaxSteps
  /\ raises => stop
  /\ calls' = Append(calls,
                Call("stopSim", "", IF stop /\ ~raises THEN 1 ELSE 0,
                     CurrentJob.job_id, rep + 1, raises))
  /\ run_pc' = IF raises THEN "except"
               ELSE IF stop THEN "rep_get" ELSE "rep_step"
  /\ UNCHANGED <<defaults, paramSetters, job_repetitions, design, job_idx,
                 rep, job_outputs, summary_avgs, summary_stds, sim_params,
                 sim_steps, sim_runs, halted, table_avgs, table_stds,
                 closed, run_error>>
  /\ UNCHANGED <<ffdVars, anVars, addVars, clsVars>>

\* line 251
stepSim(raises) ==
  /\ run_pc = "rep_step"
  /\ calls' = Append(calls,
                Call("stepSim", "", 0, CurrentJob.job_id, rep + 1, raises))
  /\ IF raises
       THEN /\ run_pc' = "except"
            /\ UNCHANGED sim_steps
       ELSE /\ run_pc' = "rep_poll"
            /\ sim_steps' = sim_steps + 1
  /\ UNCHANGED <<defaults, paramSetters, job_repetitions, design, job_idx,
                 rep, job_outputs, summary_avgs, summary_stds, sim_params,
                 sim_runs, halted, table_avgs, table_stds, closed, run_error>>
  /\ UNCHANGED <<ffdVars, anVars, addVars, clsVars>>

\* lines 252-254 (getOutputs: 274-279)
getOutputs(raiseAt) ==
  /\ run_pc = "rep_get"
  /\ raiseAt \in 0..Len(OutputNames)
  /\ LET cs   == GetterPass(raiseAt, CurrentJob.job_id, rep + 1)
         outs == [o \in OutputSet |-> GetterValue(o)]
     IN /\ calls' = calls \o cs
        /\ job_outputs' = IF raiseAt = 0 THEN AppendOutputs(job_outputs, outs)
                          ELSE job_outputs
  /\ run_pc' = IF raiseAt = 0 THEN "rep_row" ELSE "except"
  /\ UNCHANGED <<defaults, paramSetters, job_repetitions, design, job_idx,
                 rep, summary_avgs, summary_stds, sim_params, sim_steps,
                 sim_runs, halted, table_avgs, table_stds, closed, run_error>>
  /\ UNCHANGED <<ffdVars, anVars, addVars, clsVars>>

\* lines 255-257: the repetition's row; fileWriteJobParameters calls the
\* setters again
fileWriteRepetition(raiseAt) ==
  /\ run_pc = "rep_row"
  /\ raiseAt \in 0..Len(paramSetters)
  /\ LET cs == SetterPass(CurrentJob, raiseAt, rep + 1) IN
       /\ calls' = calls \o cs
       /\ sim_params' = ApplyCalls(sim_params, cs)
  /\ rep' = IF raiseAt = 0 THEN rep + 1 ELSE rep
  /\ run_pc' = IF raiseAt = 0 THEN "rep_next" ELSE "except"
  /\ UNCHANGED <<defaults, paramSetters, job_repetitions, design, job_idx,
                 job_outputs, summary_avgs, summary_stds, sim_steps,
                 sim_runs, halted, table_avgs, table_stds, closed, run_error>>
  /\ UNCHANGED <<ffdVars, anVars, addVars, clsVars>>

\* self.summary_xxx[job["job_id"]] = stats
StoreByIndex(summary, jid, stats) ==
  [j \in DOMAIN summary \cup {jid - 1} |->
     IF j = jid - 1 THEN stats ELSE summary[j]]

Store(summary, jid, stats) ==
  [j \in DOMAIN summary \cup {jid} |-> IF j = jid THEN stats ELSE summary[j]]

\* lines 259-272: the job's statistics are stored, then written with two
\* more passes over the setters, either of which may raise
jobStatistics(raiseAt) ==
  /\ run_pc = "rep_next"
  /\ rep >= Repetitions
  /\ raiseAt \in 0..2 * Len(paramSetters)
  /\ LET n  == Len(paramSetters)
         averages == [o \in DOMAIN job_outputs |-> mean(job_outputs[o])]
         stddevs  == [o \in DOMAIN job_outputs |-> popStdDev(job_outputs[o])]
         cs == IF raiseAt = 0
                 THEN SetterPass(CurrentJob, 0, 0) \o SetterPass(CurrentJob, 0, 0)
               ELSE IF raiseAt <= n
                 THEN SetterPass(CurrentJob, raiseAt, 0)
               ELSE SetterPass(CurrentJob, 0, 0)
                      \o SetterPass(CurrentJob, raiseAt - n, 0)
     IN /\ summary_avgs' = Store(summary_avgs, CurrentJob.job_id, averages)
        /\ summary_stds' = Store(summary_stds, CurrentJob.job_id, stddevs)
        /\ calls' = calls \o cs
        /\ sim_params' = ApplyCalls(sim_params, cs)
  /\ run_pc' = IF raiseAt = 0 THEN "job_next" ELSE "except"
  /\ UNCHANGED <<defaults, paramSetters, job_repetitions, design, job_idx,
                 rep, job_outputs, sim_steps, sim_runs, halted, table_avgs,
                 table_stds, closed, run_error>>
  /\ UNCHANGED <<ffdVars, anVars, addVars, clsVars>>

\* line 241: the design is exhausted and simulate() returns
simulateReturns ==
  /\ run_pc = "job_next"
  /\ job_idx >= Len(design)
  /\ run_pc' = "sum_avgs"
  /\ UNCHANGED <<defaults, paramSetters, job_repetitions, design, job_idx,
                 rep, job_outputs, summary_avgs, summary_stds, sim_params,
                 sim_steps, sim_runs, calls, halted, table_avgs, table_stds,
                 closed, run_error>>
  /\ UNCHANGED <<ffdVars, anVars, addVars, clsVars>>

\* lines 203-206: the bare except around simulate()
exceptClauseReraises ==
  /\ run_pc = "except"
  /\ halted' = TRUE
  /\ run_pc' = "propagated"
  /\ UNCHANGED <<defaults, paramSetters, job_repetitions, design, job_idx,
                 rep, job_outputs, summary_avgs, summary_stds, sim_params,
                 sim_steps, sim_runs, calls, table_avgs, table_stds, closed,
                 run_error>>
  /\ UNCHANGED <<ffdVars, anVars, addVars, clsVars>>

exceptClause ==
  /\ run_pc = "except"
  /\ halted' = TRUE
  /\ run_pc' = "sum_avgs"
  /\ UNCHANGED <<defaults, paramSetters, job_repetitions, design, job_idx,
                 rep, job_outputs, summary_avgs, summary_stds, sim_params,
                 sim_steps, sim_runs, calls, table_avgs, table_stds, closed,
                 run_error>>
  /\ UNCHANGED <<ffdVars, anVars, addVars, clsVars>>

\* lines 218-221 and 231-234: `for job in self.design` writes the job's id,
\* calls the setters (fileWriteJobParameters) and looks the job's statistics
\* up.  The loop ends early at the first job without statistics (KeyError)
\* or at a setter that raises: row raiseRow, setter raiseAt (0, 0: none).
FirstMissing(summary) ==
  IF \E x \in 1..Len(design) : design[x].job_id \notin DOMAIN summary
    THEN CHOOSE x \in 1..Len(design) :
           /\ design[x].job_id \notin DOMAIN summary
           /\ \A y \in 1..x - 1 : design[y].job_id \in DOMAIN summary
    ELSE 0

RaiseAllowed(summary, raiseRow, raiseAt) ==
  \/ raiseRow = 0 /\ raiseAt = 0
  \/ /\ raiseRow \in 1..Len(design)
     /\ raiseAt \in 1..Len(paramSetters)
     /\ FirstMissing(summary) = 0 \/ raiseRow <= FirstMissing(summary)

\* the row at which the loop is left by an exception (0: it completes)
LastRow(summary, raiseRow) ==
  IF raiseRow > 0 THEN raiseRow ELSE FirstMissing(summary)

\* the rows written: the job's id, how many parameter fields follow it and
\* whether the statistics follow those
TableRows(summary, raiseRow, raiseAt) ==
  LET last == LastRow(summary, raiseRow)
      m    == IF last = 0 THEN Len(design) ELSE last
  IN [x \in 1..m |->
        [job_id |-> design[x].job_id,
         params |-> IF x = raiseRow THEN raiseAt - 1 ELSE Len(paramSetters),
         stats  |-> x # last]]

TableError(summary, raiseRow) ==
  IF raiseRow > 0 THEN "setter raised"
  ELSE IF FirstMissing(summary) > 0 THEN "KeyError" ELSE ""

RECURSIVE TableCalls(_, _, _)
TableCalls(x, raiseRow, raiseAt) ==
  IF x = 0 THEN <<>>
  ELSE TableCalls(x - 1, raiseRow, raiseAt)
         \o SetterPass(design[x], IF x = raiseRow THEN raiseAt ELSE 0, 0)

\* lines 209-221
writeSummaryAverages(raiseRow, raiseAt) ==
  /\ run_pc = "sum_avgs"
  /\ RaiseAllowed(summary_avgs, raiseRow, raiseAt)
  /\ \E rows \in { TableRows(summary_avgs, raiseRow, raiseAt) } :
       /\ table_avgs' = rows
       /\ \E cs \in { TableCalls(Len(rows), raiseRow, raiseAt) } :
            sim_params' = ApplyCalls(sim_params, cs)
  /\ run_error' = TableError(summary_avgs, raiseRow)
  /\ run_pc' = IF TableError(summary_avgs, raiseRow) = "" THEN "sum_stds"
               ELSE "propagated"
  /\ UNCHANGED <<defaults, paramSetters, job_repetitions, design, job_idx,
                 rep, job_outputs, summary_avgs, summary_stds, sim_steps,
                 sim_runs, calls, halted, table_stds, closed>>
  /\ UNCHANGED <<ffdVars, anVars, addVars, clsVars>>

\* lines 222-234
writeSummaryStdDevs(raiseRow, raiseAt) ==
  /\ run_pc = "sum_stds"
  /\ RaiseAllowed(summary_stds, raiseRow, raiseAt)
  /\ \E rows \in { TableRows(summary_stds, raiseRow, raiseAt) } :
       /\ table_stds' = rows
       /\ \E cs \in { TableCalls(Len(rows), raiseRow, raiseAt) } :
            sim_params' = ApplyCalls(sim_params, cs)
  /\ run_error' = TableError(summary_stds, raiseRow)
  /\ run_pc' = IF TableError(summary_stds, raiseRow) = "" THEN "close"
               ELSE "propagated"
  /\ UNCHANGED <<defaults, paramSetters, job_repetitions, design, job_idx,
                 rep, job_outputs, summary_avgs, summary_stds, sim_steps,
                 sim_runs, calls, halted, table_avgs, closed>>
  /\ UNCHANGED <<ffdVars, anVars, addVars, clsVars>>

\* lines 235-238
closeOut ==
  /\ run_pc = "close"
  /\ closed' = TRUE
  /\ run_pc' = "closed"
  /\ UNCHANGED <<defaults, paramSetters, job_repetitions, design, job_idx,
                 rep, job_outputs, summary_avgs, summary_stds, sim_params,
                 sim_steps, sim_runs, calls, halted, table_avgs, table_stds,
                 run_error>>
  /\ UNCHANGED <<ffdVars, anVars, addVars, clsVars>>

NextRun ==
  \/ \E adds \in AddSequences, reps \in 1..MaxReps : SetupExperiment(adds, reps)
  \/ checkParameters
  \/ \E r \in 0..Len(RunSetters) : setDefaults(r)
  \/ BuildDesign
  \/ filewriteParameters
  \/ \E r \in 0..Len(RunSetters) : setJobParameters(r)
  \/ \E raises \in BOOLEAN : initiateSim(raises)
  \/ \E stop \in BOOLEAN, raises \in BOOLEAN : stopSim(stop, raises)
  \/ \E raises \in BOOLEAN : stepSim(raises)
  \/ \E r \in 0..Len(OutputNames) : getOutputs(r)
  \/ \E r \in 0..Len(RunSetters) : fileWriteRepetition(r)
  \/ \E r \in 0..2 * Len(RunSetters) : jobStatistics(r)
  \/ simulateReturns
  \/ exceptClause
  \/ \E x \in 0..Len(design), r \in 0..Len(RunSetters) : writeSummaryAverages(x, r)
  \/ \E x \in 0..Len(design), r \in 0..Len(RunSetters) : writeSummaryStdDevs(x, r)
  \/ closeOut

\* ------------------------------------- Annealer.configureLinearSchedule
\* the largest temperature, time and time step handed to the call
MaxTemp == 10
MaxTime == 10
MaxTimeStep == 3

\* range(start, stop, stp) for stp # 0
RECURSIVE range(_, _, _)
range(start, stop, stp) ==
  IF (stp > 0 /\ start < stop) \/ (stp < 0 /\ start > stop)
    THEN <<start>> \o range(start + stp, stop, stp)
    ELSE <<>>

\* the quotients of line 46 and the sums of line 47 are kept as exact
\* fractions of integers (the code computes them in floating point)
FracEq(a, b) == a.num * b.den = b.num * a.den
FracLess(a, b) == a.num * b.den < b.num * a.den
Whole(n) == [num |-> n, den |-> 1]

\* line 46, for a non-empty list of times
TempStepInclusive(lo, hi, tms) == [num |-> hi - lo, den |-> Len(tms) - 1]
TempStep(lo, hi, tms) == [num |-> hi - lo, den |-> Len(tms)]

\* line 47: min_temp + temp_step * i for i in range(len(times))
Temps(lo, stp, tms) ==
  [x \in 1..Len(tms) |->
     [num |-> lo * stp.den + stp.num * (x - 1), den |-> stp.den]]

ClsIdle ==
  /\ cls_pc = "idle" /\ min_temp = 0 /\ max_temp = 0 /\ min_time = 0
  /\ max_time = 0 /\ time_step = 0 /\ times = <<>>
  /\ temp_step = Whole(0) /\ temps = <<>> /\ cls_error = ""

InitSchedule ==
  /\ cls_pc = "call"
  /\ min_temp \in 0..MaxTemp /\ max_temp \in 0..MaxTemp
  /\ min_time \in 0..MaxTime /\ max_time \in 0..MaxTime
  /\ time_step \in -1..MaxTimeStep
  /\ times = <<>> /\ temp_step = Whole(0) /\ temps = <<>> /\ cls_error = ""

\* line 45; range() raises ValueError for a step of zero
ClsTimes ==
  /\ cls_pc = "call"
  /\ IF time_step = 0
       THEN /\ cls_pc' = "raised" /\ cls_error' = "ValueError"
            /\ UNCHANGED times
       ELSE /\ cls_pc' = "step"
            /\ times' = range(max_time, min_time, -time_step)
            /\ UNCHANGED cls_error
  /\ UNCHANGED <<min_temp, max_temp, min_time, max_time, time_step,
                 temp_step, temps>>
  /\ UNCHANGED <<ffdVars, anVars, runVars, addVars>>

\* line 46
ClsTempStep ==
  /\ cls_pc = "step"
  /\ IF Len(times) = 0
       THEN /\ cls_pc' = "raised" /\ cls_error' = "ZeroDivisionError"
            /\ UNCHANGED temp_step
       ELSE /\ cls_pc' = "temps"
            /\ temp_step' = TempStep(min_temp, max_temp, times)
            /\ UNCHANGED cls_error
  /\ UNCHANGED <<min_temp, max_temp, min_time, max_time, time_step, times,
                 temps>>
  /\ UNCHANGED <<ffdVars, anVars, runVars, addVars>>

\* lines 47-48
ClsReturn ==
  /\ cls_pc = "temps"
  /\ temps' = Temps(min_temp, temp_step, times)
  /\ cls_pc' = "returned"
  /\ UNCHANGED <<min_temp, max_temp, min_time, max_time, time_step, times,
                 temp_step, cls_error>>
  /\ UNCHANGED <<ffdVars, anVars, runVars, addVars>>

NextSchedule == ClsTimes \/ ClsTempStep \/ ClsReturn

\* ------------------------------------------------ Experiment.addParameter
AddIdle == last_add = <<>>

\* lines 100-101: a constructed experiment, before setupExperiment
InitSetup ==
  /\ run_pc = "setup" /\ defaults = <<>> /\ paramSetters = <<>>
  /\ job_repetitions = 1 /\ design = <<>> /\ job_idx = 0 /\ rep = 0
  /\ job_outputs = <<>> /\ summary_avgs = <<>> /\ summary_stds = <<>>
  /\ sim_params = [s \in { RunSetters[i] : i \in 1..Len(RunSetters) } |-> 0]
  /\ sim_steps = 0 /\ sim_runs = 0 /\ calls = <<>> /\ halted = FALSE
  /\ table_avgs = <<>> /\ table_stds = <<>> /\ closed = FALSE
  /\ run_error = ""
  /\ last_add = <<>>

\* one call self.addParameter(setterMethod, values) of setupExperiment, in
\* any number and with any setter, registered before or not
addParameterCall(a) ==
  /\ run_pc = "setup"
  /\ LET e == addParameter([defaults |-> defaults, paramSetters |-> paramSetters],
                           a.key, a.values, a.list)
     IN /\ defaults' = e.defaults
        /\ paramSetters' = e.paramSetters
  /\ last_add' = <<a>>
  /\ UNCHANGED <<run_pc, job_repetitions, design, job_idx, rep, job_outputs,
                 summary_avgs, summary_stds, sim_params, sim_steps, sim_runs,
                 calls, halted, table_avgs, table_stds, closed, run_error>>
  /\ UNCHANGED <<ffdVars, anVars, clsVars>>

NextSetup == \E a \in AllAddChoices : addParameterCall(a)

\* a call of configureLinearSchedule
ScheduleInit == InitSchedule /\ FfdIdle /\ AnIdle /\ RunIdle /\ AddIdle
SpecSchedule == ScheduleInit /\ [][NextSchedule]_vars

\* the addParameter calls of a setupExperiment
SetupInit == InitSetup /\ FfdIdle /\ AnIdle /\ ClsIdle
SpecSetup == SetupInit /\ [][NextSetup]_vars
\* a call of full_factorial_design on its own
DesignInit == InitDesign /\ AnIdle /\ RunIdle /\ AddIdle /\ ClsIdle
SpecDesign == DesignInit /\ [][NextDesign]_vars

\* a call of anneal
AnnealInit == InitAnneal /\ FfdIdle /\ RunIdle /\ AddIdle /\ ClsIdle
SpecAnneal == AnnealInit /\ [][NextAnneal]_vars

\* a call of run() on a constructed experiment
RunInit == InitRun /\ FfdIdle /\ AnIdle /\ AddIdle /\ ClsIdle
SpecRun == RunInit /\ [][NextRun]_vars

\* the same call, in which run() keeps executing: the program is
\* sequential, so whenever it has a next step it takes one
SpecRunFair == RunInit /\ [][NextRun]_vars /\ WF_vars(NextRun)

\* ---------------------------------------------------------------- C1
\* the digit of dimension i in the m-th (0-based) element of the Cartesian
\* product in lexicographic order of declaration: a mixed-radix expansion
\* in which the last dimension is the least significant
LaterProduct(lens, i) == SeqProduct(SubSeq(lens, i + 1, Len(lens)))
LexDigit(lens, m, i) == (m \div LaterProduct(lens, i)) % lens[i]
LexJob(params, j) ==
  [i \in 1..Len(params) |->
     params[i].values[LexDigit(Lens(params), j - 1, i) + 1]]

ValidDesignInput ==
  /\ ordered
  /\ Len(parameters) >= 1
  /\ \A i \in 1..Len(parameters) :
       /\ parameters[i].list
       /\ Len(parameters[i].values) >= 1
       /\ parameters[i].key # JobIdName

\* all index combinations of the value lists
IndexCombos(lens) ==
  { c \in [1..Len(lens) -> 1..MaxVals + 1] : \A i \in 1..Len(lens) : c[i] <= lens[i] }

\* C1: for an order-preserving mapping with at least one parameter and
\* non-empty value lists, full_factorial_design does not raise, the k-th
\* emitted job has job_id k and holds the k-th element of the Cartesian
\* product in lexicographic order of declaration (last parameter fastest),
\* and the returned design has exactly the product of the list lengths
\* many jobs, every combination appearing exactly once.
C1_LexicographicDesign ==
  ValidDesignInput =>
    /\ ffd_pc # "raised"
    /\ \A j \in 1..Len(result) :
         /\ result[j].job_id = j
         /\ result[j].assign = LexJob(parameters, j)
    /\ ffd_pc = "returned" =>
         /\ Len(result) = SeqProduct(Lens(parameters))
         /\ \A c \in IndexCombos(Lens(parameters)) :
              Cardinality({ j \in 1..Len(result) :
                 result[j].assign =
                   [i \in 1..Len(parameters) |-> parameters[i].values[c[i]]] }) = 1

\* a returned 2 x 3 design, the shape of the documented example
C1_Witness ==
  /\ ffd_pc = "returned" /\ ValidDesignInput
  /\ Lens(parameters) = <<2, 3>>
  /\ Len(result) = 6
  /\ result[4].assign = <<ValueAt(1, 2), ValueAt(2, 1)>>

\* ---------------------------------------------------------------- C7
\* iterations of the stages before stage s (0-based) of the schedule
DoneBefore(tms, s) == SeqSum(SubSeq(tms, 1, s))

\* C7: for a schedule whose temperatures and durations have the same
\* length, anneal calls objective once for initial_state and once per
\* proposed candidate, accepted or rejected, and move once per candidate:
\* a call that returns has made sum(durations) + 1 objective calls and
\* sum(durations) move calls.  With no callback raising, the call ends
\* otherwise only by the division of line 38 when k * temperature is 0,
\* which the positive temperatures of a schedule exclude.
C7_CallCounts ==
  /\ Len(schedule_temps) = Len(schedule_times)
  /\ an_pc = "loop" =>
       /\ n_move = DoneBefore(schedule_times, step) + t
       /\ n_objective = n_move + 1
  /\ an_pc = "returned" =>
       /\ n_objective = SeqSum(schedule_times) + 1
       /\ n_move = SeqSum(schedule_times)
  /\ an_pc = "raised" => k * schedule_temps[step + 1] = 0

\* a returned call over two stages of two iterations each whose last
\* candidate was rejected
C7_Witness ==
  /\ an_pc = "returned"
  /\ schedule_times = <<2, 2>>
  /\ n_objective = 5
  /\ objective_func(heap[state]) # prev_energy

\* ---------------------------------------------------------------- C8
\* C8: during anneal best_energy never exceeds an earlier value of itself,
\* and the state returned has an energy less than or equal to that of
\* initial_state, whatever the candidates and the random draws.
C8_BestMonotone ==
  /\ [][an_pc = "loop" => best_energy' <= best_energy]_vars
  /\ [](an_pc = "returned" =>
          /\ objective_func(heap[returned]) <= objective_func(heap[initial_state])
          /\ objective_func(heap[returned]) = best_energy)

\* a run that found a better state and then moved to a worse current one
C8_Witness ==
  /\ an_pc = "returned"
  /\ best_energy < objective_func(heap[initial_state])
  /\ prev_energy > best_energy

\* ---------------------------------------------------------------- C9
\* C9: an iteration whose candidate has exactly the current energy (in a
\* stage of positive temperature) does not take the strictly-less branch
\* but samples random(), and accepts for every sample: current_state
\* becomes a copy of the candidate and current_energy its energy.
C9_TiesAccepted ==
  [][ ( /\ an_pc = "loop"
        /\ n_move' = n_move + 1
        /\ delta_energy' = 0
        /\ k * schedule_temps[step + 1] > 0 )
      => ( /\ an_pc' = "loop"
           /\ draw' # <<>>
           /\ prev_state' # prev_state
           /\ prev_state' # state'
           /\ heap'[prev_state'] = heap'[state']
           /\ prev_energy' = objective_func(heap'[state'])
           /\ best_energy' = best_energy /\ best_state' = best_state ) ]_vars

\* a tie accepted on the largest sample, with a content other than the
\* one the current state had
C9_Witness ==
  /\ an_pc = "loop"
  /\ n_move = 2
  /\ delta_energy = 0
  /\ draw = <<2>>
  /\ heap[prev_state] = heap[state]
  /\ heap[prev_state] = 3

\* ------------------------------------------------- claims about run()
LoopPcs == {"job_next", "rep_next", "rep_poll", "rep_step", "rep_get",
            "rep_row", "except"}

\* the phase of the run's state machine a place of run() belongs to:
\* 0 Uninitialized, 1 DefaultsApplied, 2 DesignBuilt, 3 Running,
\* 4 Summarizing, 5 Closed
PhaseOf(pc) ==
  CASE pc \in {"start", "check", "defaults"} -> 0
    [] pc = "design" -> 1
    [] pc = "filewrite" -> 2
    [] pc \in LoopPcs -> 3
    [] pc \in {"sum_avgs", "sum_stds", "close"} -> 4
    [] pc = "closed" -> 5
    [] OTHER -> 6

Abnormal == {"propagated", "hang"}

JobIds == { design[x].job_id : x \in 1..Len(design) }

\* the rows of a summary table that carry statistics
FullRows(table) == { table[x].job_id : x \in { y \in 1..Len(table) : table[y].stats } }
AllRows(table) == { table[x].job_id : x \in 1..Len(table) }

\* ---------------------------------------------------------------- C2
\* C2: once a callback has raised during job j of the job loop, no later
\* job is attempted (the loop takes no further job and makes no further
\* callback call), and no job after j appears in either summary table.
C2_NoLaterJob ==
  halted =>
    /\ run_pc \notin LoopPcs
    /\ \A x \in 1..Len(calls) : calls[x].job <= job_idx
    /\ \A j \in AllRows(table_avgs) \cup AllRows(table_stds) : j <= job_idx

\* ---------------------------------------------------------------- C3
\* C3: a run whose job loop was aborted by a raising callback after some
\* jobs had completed (the job that raised has no statistics, and no
\* callback raises again while the summary is written) ends Closed, with a
\* row of statistics for every completed job in both summary tables.
C3_PartialResultsPreserved ==
  ( /\ halted
    /\ DOMAIN summary_avgs # {}
    /\ CurrentJob.job_id \notin DOMAIN summary_avgs
    /\ run_error # "setter raised"
    /\ run_pc \in Abnormal \cup {"closed"} ) =>
    /\ closed
    /\ DOMAIN summary_avgs \subseteq FullRows(table_avgs)
    /\ DOMAIN summary_stds \subseteq FullRows(table_stds)

\* ---------------------------------------------------------------- C4
DefaultCalls ==
  [i \in 1..Len(defaults) |->
     Call("setter", defaults[i].key, defaults[i].value, 0, 0, FALSE)]

\* C4: a run passes through the phases Uninitialized, DefaultsApplied,
\* DesignBuilt, Running, Summarizing, Closed in this order, one at a time
\* (unless an exception leaves run() or the design is never returned);
\* every default setter has been applied when the design is built; no job's
\* setter or simulation call is made before the design is built; the jobs
\* are taken one at a time in ascending job_id order, each after the one
\* before it has its statistics; and no summary row is written before all
\* jobs have completed or an error has aborted the job loop.
C4_PhaseOrder ==
  /\ [][ run_pc' \notin Abnormal =>
           PhaseOf(run_pc') \in {PhaseOf(run_pc), PhaseOf(run_pc) + 1} ]_vars
  /\ [][ design' # design =>
           /\ run_pc = "design"
           /\ calls = DefaultCalls
           /\ \A i \in 1..Len(defaults) :
                \E x \in 1..Len(calls) :
                  calls[x].key = defaults[i].key /\ calls[x].arg = defaults[i].value ]_vars
  /\ [](PhaseOf(run_pc) < 2 =>
          /\ job_idx = 0 /\ sim_runs = 0 /\ design = <<>>
          /\ \A x \in 1..Len(calls) : calls[x].job = 0 /\ calls[x].fn = "setter")
  /\ [][ job_idx' # job_idx =>
           /\ job_idx' = job_idx + 1
           /\ design[job_idx'].job_id = job_idx'
           /\ job_idx > 0 => design[job_idx].job_id \in DOMAIN summary_avgs
           /\ \A x \in 1..Len(calls') : calls'[x].job = job_idx' ]_vars
  /\ [](job_idx > 0 => \A x \in 1..Len(calls) : calls[x].job = CurrentJob.job_id)
  /\ []((table_avgs # <<>> \/ table_stds # <<>>) =>
          halted \/ DOMAIN summary_avgs = JobIds)

\* a complete run with a default applied and the two jobs of a sweep
C4_Witness ==
  /\ run_pc = "closed" /\ ~halted
  /\ Len(defaults) = 1
  /\ Len(design) = 2
  /\ Len(table_avgs) = 2 /\ Len(table_stds) = 2

\* ---------------------------------------------------------------- C5
\* the simulation lifecycle calls made for repetition r of the current job
IsLifecycleOf(c, r) == c.rep = r /\ c.fn # "setter"
RECURSIVE RepLog(_, _)
RepLog(cs, r) ==
  IF cs = <<>> THEN <<>>
  ELSE IF IsLifecycleOf(Head(cs), r) THEN <<Head(cs)>> \o RepLog(Tail(cs), r)
  ELSE RepLog(Tail(cs), r)

\* the call that may follow call c within a repetition
MayFollow(c, d) ==
  /\ ~c.raised
  /\ CASE c.fn = "initiateSim" -> d.fn = "stopSim"
       [] c.fn = "stopSim" /\ c.arg = 0 -> d.fn = "stepSim"
       [] c.fn = "stopSim" /\ c.arg = 1 ->
            d.fn = "getter" /\ d.key = OutputNames[1]
       [] c.fn = "stepSim" -> d.fn = "stopSim"
       [] OTHER ->
            \E g \in 1..Len(OutputNames) - 1 :
              /\ c.key = OutputNames[g]
              /\ d.fn = "getter" /\ d.key = OutputNames[g + 1]

RepetitionBegun(l) ==
  /\ l # <<>> => l[1].fn = "initiateSim"
  /\ \A x \in 1..Len(l) - 1 : MayFollow(l[x], l[x + 1])

RepetitionDone(l) ==
  /\ l # <<>> /\ RepetitionBegun(l)
  /\ l[Len(l)].fn = "getter" /\ l[Len(l)].key = OutputNames[Len(OutputNames)]
  /\ ~l[Len(l)].raised

\* C5: within a job the driver runs exactly job_repetitions repetitions,
\* and each is: initiateSim() once, then stopSim() polled with one
\* stepSim() after each poll that returned false and none after the poll
\* that returned true, then every output getter once, in order.
C5_RepetitionLifecycle ==
  job_idx > 0 =>
    /\ rep <= job_repetitions
    /\ CurrentJob.job_id \in DOMAIN summary_avgs => rep = job_repetitions
    /\ \A r \in 1..job_repetitions + 1 :
         /\ RepetitionBegun(RepLog(calls, r))
         /\ r <= rep => RepetitionDone(RepLog(calls, r))
         /\ r > rep + 1 => RepLog(calls, r) = <<>>
    /\ \A x \in 1..Len(calls) : calls[x].rep <= job_repetitions

\* a job of two repetitions, the first with a step and the second without
C5_Witness ==
  /\ job_idx > 0 /\ job_repetitions = 2
  /\ CurrentJob.job_id \in DOMAIN summary_avgs
  /\ \E x \in 1..Len(calls) : calls[x].fn = "stepSim" /\ calls[x].rep = 1
  /\ Len(RepLog(calls, 2)) = 2 + Len(OutputNames)

\* ---------------------------------------------------------------- C6
\* C6: a job's log begins with one call of every swept setter, with the
\* job's value and in declaration order, before its first initiateSim();
\* every setter call made while the job runs carries the job's value; and
\* at every initiateSim() the simulation holds the job's value for every
\* swept parameter.
C6_JobParametersSet ==
  /\ []( (job_idx > 0 /\ \E x \in 1..Len(calls) : calls[x].fn = "initiateSim") =>
           /\ Len(calls) > Len(paramSetters)
           /\ \A i \in 1..Len(paramSetters) :
                calls[i] = Call("setter", paramSetters[i].key,
                                CurrentJob.assign[i], CurrentJob.job_id, 0, FALSE)
           /\ \A x \in 1..Len(calls) :
                calls[x].fn = "setter" =>
                  \E i \in 1..Len(paramSetters) :
                    /\ calls[x].key = paramSetters[i].key
                    /\ calls[x].arg = CurrentJob.assign[i] )
  /\ [][ (run_pc = "rep_next" /\ run_pc' \in {"rep_poll", "except"}
            /\ rep < job_repetitions) =>
           \A i \in 1..Len(paramSetters) :
             sim_params[paramSetters[i].key] = CurrentJob.assign[i] ]_vars

\* the second repetition of the second job of a two-parameter sweep begins
C6_Witness ==
  /\ run_pc = "rep_poll" /\ job_idx = 2 /\ rep = 1
  /\ Len(paramSetters) = 2 /\ Len(design) = 4
  /\ sim_params["setB"] = ValueAt(2, 2)

\* --------------------------------------------------------------- C10
\* the values a getter returned in the repetitions of the current job
RECURSIVE Returned(_, _)
Returned(cs, o) ==
  IF cs = <<>> THEN <<>>
  ELSE IF Head(cs).fn = "getter" /\ Head(cs).key = o /\ ~Head(cs).raised
    THEN <<Head(cs).arg>> \o Returned(Tail(cs), o)
  ELSE Returned(Tail(cs), o)

\* C10: an error-free run over N jobs ends with statistics for exactly the
\* jobs 1..N; a job's means and standard deviations are computed from
\* exactly job_repetitions values per output, the ones the getters returned
\* in that job's repetitions; they are not changed afterwards; and a getter
\* returning a constant yields a standard deviation of 0.
C10_JobStatistics ==
  /\ []( (run_pc = "closed" /\ ~halted) =>
           /\ DOMAIN summary_avgs = 1..Len(design)
           /\ DOMAIN summary_stds = 1..Len(design) )
  /\ []( (job_idx > 0 /\ CurrentJob.job_id \in DOMAIN summary_avgs) =>
           \A o \in OutputSet :
             /\ Len(Returned(calls, o)) = job_repetitions
             /\ job_outputs[o] = Returned(calls, o)
             /\ summary_avgs[CurrentJob.job_id][o] = mean(Returned(calls, o))
             /\ summary_stds[CurrentJob.job_id][o] = popStdDev(Returned(calls, o)) )
  /\ [](\A j \in DOMAIN summary_stds :
          /\ summary_stds[j]["const"].num = 0
          /\ summary_stds[j]["const"].den = job_repetitions * job_repetitions
          /\ summary_avgs[j]["const"].den = job_repetitions)
  /\ [][ \A j \in DOMAIN summary_avgs :
           /\ j \in DOMAIN summary_avgs' /\ summary_avgs'[j] = summary_avgs[j]
           /\ j \in DOMAIN summary_stds' /\ summary_stds'[j] = summary_stds[j] ]_vars

\* an error-free run of two jobs of two repetitions each
C10_Witness ==
  /\ run_pc = "closed" /\ ~halted
  /\ Len(design) = 2 /\ job_repetitions = 2
  /\ DOMAIN summary_stds = {1, 2}
  /\ summary_stds[2]["const"].num = 0
  /\ summary_stds[2]["runs"].num > 0
  /\ summary_avgs[2]["runs"] = [num |-> 7, den |-> 2]

\* --------------------------------------------------------------- C11
\* no parameter is swept: after checkParameters every entry of paramSetters
\* is a one-element list (addParameter itself never stores one there)
NoneSwept == \A i \in 1..Len(paramSetters) : Len(paramSetters[i].values) = 1

DefaultValues == [i \in 1..Len(defaults) |-> defaults[i].value]

\* C11: when no parameter is swept (every registered parameter is a
\* default, or none is registered at all), the call of the generator at
\* line 197 returns, the design is exactly one job with job_id 1 whose
\* values are the registered defaults, and the job loop takes that job only.
C11_SingleDefaultJob ==
  (NoneSwept /\ (PhaseOf(run_pc) \in 2..5 \/ run_pc = "hang")) =>
    /\ run_pc # "hang"
    /\ Len(design) = 1
    /\ design[1].job_id = 1
    /\ design[1].assign = DefaultValues
    /\ job_idx <= 1
    /\ (run_pc = "closed" /\ ~halted) => job_idx = 1 /\ DOMAIN summary_avgs = {1}

\* --------------------------------------------------------------- C12
ValidationErrors ==
  {"parameters must be OrderedDict", "dimension must be a list",
   "dimension name equal to job_id_name"}

Malformed ==
  \/ ~ordered
  \/ \E i \in 1..Len(parameters) : ~parameters[i].list
  \/ \E i \in 1..Len(parameters) : parameters[i].key = JobIdName

\* C12: when the mapping is not an OrderedDict, or the value set of any
\* dimension (the first or a later one) is not a list, or any key equals
\* job_id_name, full_factorial_design raises one of the three validation
\* errors before its loop emits a job, and never returns; and a validation
\* error is raised for such inputs only.
C12_ValidationRejects ==
  /\ Malformed =>
       /\ ffd_pc \in {"call", "raised"}
       /\ result = <<>>
       /\ ffd_pc = "raised" => ffd_error \in ValidationErrors
  /\ ffd_error \in ValidationErrors => Malformed /\ ffd_pc = "raised"

\* three dimensions of which only the last offends, by its key
C12_Witness ==
  /\ ffd_pc = "raised" /\ ordered
  /\ ffd_error = "dimension name equal to job_id_name"
  /\ Len(parameters) = 3
  /\ \A i \in 1..2 : parameters[i].list /\ parameters[i].key # JobIdName
  /\ Len(parameters[1].values) = 2
  /\ parameters[3].key = JobIdName /\ parameters[3].list

\* --------------------------------------------------------------- C13
\* the pc values of a call of anneal that has passed lines 20-23
AnnealBegun == {"loop", "returned", "raised"}

\* C13: an iteration whose candidate's energy is not lower than the current
\* energy and whose sample of random() is not below the acceptance
\* probability exp(-delta/(k*temp)) leaves current_state, current_energy,
\* best_state and best_energy as they were, objects and contents, when
\* move_func did not write into its argument.
C13_RejectionKeepsState ==
  [][ ( /\ an_pc = "loop"
        /\ n_move' = n_move + 1
        /\ objective_func(heap'[state']) >= prev_energy
        /\ k * schedule_temps[step + 1] > 0
        /\ draw' # <<>>
        /\ draw'[1] * ExpDen(objective_func(heap'[state']) - prev_energy,
                             k * schedule_temps[step + 1])
             >= Scale * ExpNum(objective_func(heap'[state']) - prev_energy,
                               k * schedule_temps[step + 1])
        /\ (state' # prev_state \/ heap'[state'] = heap[prev_state]) )
      => ( /\ an_pc' = "loop"
           /\ prev_state' = prev_state /\ prev_energy' = prev_energy
           /\ best_state' = best_state /\ best_energy' = best_energy
           /\ heap'[prev_state] = heap[prev_state]
           /\ heap'[best_state] = heap[best_state] ) ]_vars

\* a worse candidate rejected on the largest sample while the current state
\* is itself worse than the best
C13_Witness ==
  /\ an_pc = "loop" /\ ~move_inplace
  /\ draw = <<2>> /\ delta_energy > 0
  /\ heap[state] # heap[prev_state]
  /\ objective_func(heap[prev_state]) = prev_energy
  /\ prev_energy > best_energy

\* --------------------------------------------------------------- C14
\* C14: once anneal has taken its copies, best_state (the object it
\* returns) is never initial_state, the candidate move_func returned, or the
\* current state; the current state is never best_state or initial_state;
\* and the content of best_state changes only when a new best is copied,
\* whatever move_func writes into the objects it is handed.
C14_IndependentCopies ==
  /\ []( an_pc \in AnnealBegun =>
           /\ best_state \notin {initial_state, prev_state, state}
           /\ prev_state # initial_state
           /\ objective_func(heap[best_state]) = best_energy )
  /\ []( an_pc = "returned" =>
           /\ returned = best_state
           /\ returned \notin {initial_state, prev_state, state} )
  /\ [][ (an_pc \in AnnealBegun /\ best_energy' = best_energy) =>
           /\ best_state' = best_state
           /\ heap'[best_state] = heap[best_state] ]_vars
  /\ [][ (an_pc \in AnnealBegun /\ best_energy' # best_energy) =>
           /\ best_state' \notin DOMAIN heap
           /\ heap'[best_state'] = heap'[state'] ]_vars

\* a call with a move_func that works in place: it returned a best state
\* found during the run, and the candidate object was written after that
C14_Witness ==
  /\ an_pc = "returned" /\ move_inplace
  /\ best_energy < objective_func(heap[initial_state])
  /\ heap[state] # heap[returned]
  /\ heap[prev_state] # heap[returned]

\* --------------------------------------------------------------- C20
\* C20: best_energy never exceeds the current energy, it starts as the
\* energy of initial_state, and every iteration leaves it at the minimum of
\* its old value and the candidate's energy: a candidate below the best so
\* far is accepted as the current state and copied as the new best.
C20_BestIsMinimum ==
  /\ [](an_pc \in AnnealBegun => best_energy <= prev_energy)
  /\ [][ an_pc = "call" =>
           best_energy' = objective_func(heap[initial_state]) ]_vars
  /\ [][ (an_pc = "loop" /\ n_objective' = n_objective + 1) =>
           /\ best_energy' =
                IF objective_func(heap'[state']) < best_energy
                  THEN objective_func(heap'[state']) ELSE best_energy
           /\ objective_func(heap'[state']) < best_energy =>
                /\ prev_energy' = objective_func(heap'[state'])
                /\ heap'[prev_state'] = heap'[state']
                /\ heap'[best_state'] = heap'[state'] ]_vars

\* a new best found from a current state that was worse than the old best
C20_Witness ==
  /\ an_pc = "loop"
  /\ objective_func(heap[initial_state]) = 1
  /\ delta_energy = -2
  /\ best_energy = 0 /\ prev_energy = 0
  /\ heap[best_state] = heap[state]

\* --------------------------------------------------------------- C15
\* C15: for time_step > 0 and max_time > min_time the call does not raise;
\* the durations are max_time, max_time - time_step, ... as long as they are
\* greater than min_time; the temperatures are as many, the i-th (from 0)
\* being min_temp + i * (max_temp - min_temp) / len(durations), so the first
\* is min_temp and, when max_temp > min_temp, all are below max_temp; and
\* configureLinearSchedule(0, 10, 0, 10, 2) returns the durations
\* [10, 8, 6, 4, 2] and the temperatures [0, 2, 4, 6, 8].
C15_LinearSchedule ==
  /\ (time_step > 0 /\ max_time > min_time) =>
       /\ cls_pc # "raised"
       /\ cls_pc \in {"step", "temps", "returned"} =>
            /\ Len(times) >= 1
            /\ \A i \in 1..Len(times) :
                 /\ times[i] = max_time - (i - 1) * time_step
                 /\ times[i] > min_time
            /\ max_time - Len(times) * time_step <= min_time
       /\ cls_pc = "returned" =>
            /\ Len(temps) = Len(times)
            /\ \A i \in 1..Len(temps) :
                 /\ FracEq(temps[i],
                           [num |-> min_temp * Len(times)
                                      + (i - 1) * (max_temp - min_temp),
                            den |-> Len(times)])
                 /\ max_temp > min_temp => FracLess(temps[i], Whole(max_temp))
            /\ FracEq(temps[1], Whole(min_temp))
  /\ ( /\ cls_pc = "returned"
       /\ <<min_temp, max_temp, min_time, max_time, time_step>>
            = <<0, 10, 0, 10, 2>> ) =>
       /\ times = <<10, 8, 6, 4, 2>>
       /\ Len(temps) = 5
       /\ \A i \in 1..5 : FracEq(temps[i], Whole(2 * (i - 1)))

\* the documented call has returned
C15_Witness ==
  /\ cls_pc = "returned"
  /\ <<min_temp, max_temp, min_time, max_time, time_step>> = <<0, 10, 0, 10, 2>>
  /\ times = <<10, 8, 6, 4, 2>>
  /\ temps[5] = [num |-> 40, den |-> 5]

\* --------------------------------------------------------------- C16
HasKey(dict, key) == \E i \in 1..Len(dict) : dict[i].key = key
EntryOf(dict, key) == dict[CHOOSE i \in 1..Len(dict) : dict[i].key = key]
\* the table dict2 is dict with the entry of key set: the other entries
\* and their order are kept, a new key comes last
OthersKept(dict, dict2, key) ==
  /\ Len(dict2) = IF HasKey(dict, key) THEN Len(dict) ELSE Len(dict) + 1
  /\ \A i \in 1..Len(dict) : dict[i].key # key => dict2[i] = dict[i]
  /\ \A i \in 1..Len(dict) : dict[i].key = key => dict2[i].key = key
  /\ ~HasKey(dict, key) => dict2[Len(dict2)].key = key

\* C16: addParameter(setter, values) with values not a list or a list of
\* length 1 stores the value (the list's element) as the setter's default
\* and leaves the swept table as it was; with any other list (the empty one
\* too) it stores the whole list in the swept table and leaves the defaults
\* as they were; the other entries of the table written are kept.
C16_AddParameterTables ==
  [][ (run_pc = "setup" /\ last_add' # <<>>) =>
        LET a == last_add'[1] IN
          IF ~a.list \/ Len(a.values) = 1
            THEN /\ HasKey(defaults', a.key)
                 /\ EntryOf(defaults', a.key).value = a.values[1]
                 /\ OthersKept(defaults, defaults', a.key)
                 /\ paramSetters' = paramSetters
            ELSE /\ HasKey(paramSetters', a.key)
                 /\ EntryOf(paramSetters', a.key).values = a.values
                 /\ OthersKept(paramSetters, paramSetters', a.key)
                 /\ defaults' = defaults ]_vars

\* setA, registered with two values before, is added again with a
\* one-element list: the default is stored and the swept entry stays
C16_Witness ==
  /\ run_pc = "setup"
  /\ last_add = <<[key |-> "setA", values |-> <<ValueAt(1, 1)>>, list |-> TRUE]>>
  /\ HasKey(paramSetters, "setA")
  /\ Len(EntryOf(paramSetters, "setA").values) = 2
  /\ HasKey(defaults, "setA")
  /\ EntryOf(defaults, "setA").value = ValueAt(1, 1)
  /\ HasKey(defaults, "setB")

\* --------------------------------------------------------------- C17
\* C17: after any sequence of addParameter calls every swept parameter has
\* a list of at least 2 values, and no setter is both a default and swept.
C17_RegisteredParameters ==
  run_pc = "setup" =>
    /\ \A i \in 1..Len(paramSetters) : Len(paramSetters[i].values) >= 2
    /\ \A i \in 1..Len(paramSetters) : ~HasKey(defaults, paramSetters[i].key)

\* --------------------------------------------------------------- C18
\* the step made a callback call that raised
CallRaised == calls' # calls /\ calls'[Len(calls')].raised

\* C18 as stated: every error a callback raises during run() reaches the
\* handler of lines 203-206, the handler leads to the summary, and no
\* callback's error leaves run() before the summary phase was entered.
C18_SummaryAlwaysAttempted ==
  /\ [][ CallRaised => run_pc' = "except" ]_vars
  /\ [][ run_pc = "except" => run_pc' = "sum_avgs" /\ halted' ]_vars
  /\ [][ (run_pc' = "propagated" /\ run_error' = "setter raised") =>
           PhaseOf(run_pc) = 4 ]_vars

\* C18 amended: every error a callback raises inside the job loop, i.e.
\* within simulate(), reaches the handler of lines 203-206, which leads to
\* the summary; a callback's error leaves run() only from the summary phase
\* or from setDefaults (line 196, before the try block), where the setter
\* of a default raised and no summary is attempted.
C18_LoopErrorsSwallowed ==
  /\ [][ (CallRaised /\ PhaseOf(run_pc) = 3) => run_pc' = "except" ]_vars
  /\ [][ (CallRaised /\ PhaseOf(run_pc) # 3) =>
           /\ run_pc = "defaults" /\ run_pc' = "propagated"
           /\ UNCHANGED <<table_avgs, table_stds, halted, closed>> ]_vars
  /\ [][ run_pc = "except" =>
           run_pc' = "sum_avgs" /\ halted' /\ run_error' = "" ]_vars
  /\ [][ (run_pc' = "propagated" /\ run_error' = "setter raised") =>
           PhaseOf(run_pc) = 4 \/ run_pc = "defaults" ]_vars
  /\ [](halted => PhaseOf(run_pc) >= 4)

\* the handler was entered for a getter that raised in the second
\* repetition of the second job, and the summary is begun
C18_Witness ==
  /\ run_pc = "sum_avgs" /\ halted
  /\ job_idx = 2 /\ rep = 1
  /\ calls[Len(calls)].fn = "getter" /\ calls[Len(calls)].raised
  /\ DOMAIN summary_avgs = {1}

\* --------------------------------------------------------------- C19
\* at least one parameter is swept and every swept parameter has the two or
\* more values of a swept Parameter
WellSwept ==
  /\ paramSetters # <<>>
  /\ \A i \in 1..Len(paramSetters) : Len(paramSetters[i].values) >= 2

\* a callback has raised
CallbackRaised ==
  \/ run_pc = "except" \/ halted
  \/ run_error = "setter raised"

ClosedComplete ==
  /\ run_pc = "closed" /\ closed /\ ~halted
  /\ Len(design) = SeqProduct(Lens(paramSetters))
  /\ sim_runs = Len(design) * job_repetitions
  /\ FullRows(table_avgs) = JobIds /\ Len(table_avgs) = Len(design)
  /\ FullRows(table_stds) = JobIds /\ Len(table_stds) = Len(design)

\* C19: a run in which every repetition's stopSim() comes to return true
\* (here after MaxSteps steps at the latest) comes to an end; and with at
\* least one swept parameter it ends either after a callback raised or
\* Closed, after N * job_repetitions repetitions and with one row of
\* statistics per job in each summary table.
C19_RunTerminates ==
  /\ <>(run_pc \in Abnormal \cup {"closed"})
  /\ []( (run_pc \in Abnormal \cup {"closed"} /\ WellSwept) =>
           CallbackRaised \/ ClosedComplete )

\* a run over four jobs of two repetitions each is Closed
C19_Witness ==
  /\ ClosedComplete
  /\ Len(design) = 4 /\ job_repetitions = 2 /\ sim_runs = 8

====
